---- MODULE Spec2Model ----
(***************************************************************************)
(* Subunit v2 codec of src/subunit-stream.js: the variable-length integer  *)
(* and length-prefixed UTF-8 codecs, the encoder                           *)
(* (ObjectToSubunitStream._transform) and the streaming decoder            *)
(* (SubunitToObjectStream._transform).                                     *)
(*                                                                         *)
(* Data representation.  A Buffer or BufferList is a sequence of bytes     *)
(* (0..255), indexed from 0 in the source and from 1 here.  A JavaScript   *)
(* string is a sequence of Unicode code points.  An optional property of a *)
(* record is <<>> when it is undefined and <<v>> when it holds v.  TLC     *)
(* integers are 32 bits wide, so a Date with time value t milliseconds is  *)
(* held as [secHi, secLo, ms] with                                         *)
(*     t = (secHi * 65536 + secLo) * 1000 + ms,  0 <= secLo < 65536,       *)
(*     0 <= ms < 1000,                                                     *)
(* and a 32-bit checksum as its four big-endian bytes.                     *)
(***************************************************************************)
EXTENDS Integers, Sequences, FiniteSets, TLC

VARIABLES
  pc,        \* position of the scenario being run
  num,       \* integer handed to writeVarInt
  str,       \* string handed to writeUtf8
  buf,       \* result of writeVarInt / writeUtf8: [err, bytes]
  res,       \* result of readVarInt / readUtf8: [err, length, value]
  chunk,     \* record last written to the ObjectToSubunitStream
  out,       \* packets pushed by the ObjectToSubunitStream, in order
  encErr,    \* TRUE when the last ObjectToSubunitStream write threw
  pipe,      \* bytes on their way to the SubunitToObjectStream
  nwrites,   \* number of chunks the SubunitToObjectStream has handled
  bl,        \* SubunitToObjectStream.bl
  offset,    \* SubunitToObjectStream.offset
  pushed,    \* records pushed by the SubunitToObjectStream, in order
  errors,    \* offsets of the 'error' events emitted by the decoder
  listening, \* TRUE when the consumer has an 'error' listener attached
  thrown,    \* TRUE when a decoder write threw to its caller
  spinning   \* TRUE when the decoder's while loop did not leave a chunk

vars == <<pc, num, str, buf, res, chunk, out, encErr, pipe, nwrites, bl,
          offset, pushed, errors, listening, thrown, spinning>>

codecVars == <<num, str, buf, res>>
encVars == <<chunk, out, encErr>>
decVars == <<pipe, nwrites, bl, offset, pushed, errors, listening, thrown,
             spinning>>

Undefined == <<>>
Some(v) == <<v>>
IsDefined(x) == x # <<>>

Min(a, b) == IF a < b THEN a ELSE b

\* the element of a one-element set.  The({e : x \in {v}}) is e with x
\* naming the value of v, computed once, as a var statement names it
The(S) == CHOOSE x \in S : TRUE

(***************************************************************************)
(* Bitwise operators of JavaScript on non-negative operands.               *)
(***************************************************************************)
RECURSIVE BitAnd(_, _)
BitAnd(a, b) ==
  The({IF x = 0 \/ y = 0 THEN 0
       ELSE (x % 2) * (y % 2) + 2 * BitAnd(x \div 2, y \div 2) :
       x \in {a}, y \in {b}})

RECURSIVE BitOr(_, _)
BitOr(a, b) ==
  The({IF x = 0 THEN y
       ELSE IF y = 0 THEN x
       ELSE (IF x % 2 = 1 \/ y % 2 = 1 THEN 1 ELSE 0)
            + 2 * BitOr(x \div 2, y \div 2) :
       x \in {a}, y \in {b}})

RECURSIVE BitXor(_, _)
BitXor(a, b) ==
  The({IF x = 0 THEN y
       ELSE IF y = 0 THEN x
       ELSE ((x + y) % 2) + 2 * BitXor(x \div 2, y \div 2) :
       x \in {a}, y \in {b}})

(***************************************************************************)
(* Buffer primitives.                                                      *)
(***************************************************************************)
\* buf.slice(start, end): clamps to the bytes that are present, never throws
Slice(b, start, end) == SubSeq(b, start + 1, Min(end, Len(b)))

\* big-endian bytes of v in n octets (Buffer.writeUIntBE), 0 <= v < 256^n
RECURSIVE UIntBytesBE(_, _)
UIntBytesBE(v, n) ==
  IF n = 0 THEN <<>> ELSE Append(UIntBytesBE(v \div 256, n - 1), v % 256)

\* b.readUIntBE(at, n) for a Buffer b that holds the n bytes, n <= 3
RECURSIVE readUIntBE(_, _, _)
readUIntBE(b, at, n) ==
  IF n = 0 THEN 0 ELSE readUIntBE(b, at, n - 1) * 256 + b[at + n]

RangeError == [err |-> TRUE, length |-> 0, value |-> 0]

(***************************************************************************)
(* Variable-length integers.                                               *)
(***************************************************************************)
readVarInt(b0, index) ==
  LET b == Slice(b0, index, index + 4) IN
  IF Len(b) < 1 THEN RangeError
  ELSE
    LET first == b[1]
        type == BitAnd(first, 192)
        value == BitAnd(first, 63)
    IN IF type = 0 THEN [err |-> FALSE, length |-> 1, value |-> value]
       ELSE IF type = 64 THEN
         IF Len(b) < 2 THEN RangeError
         ELSE [err |-> FALSE, length |-> 2,
               value |-> BitOr(value * 256, readUIntBE(b, 1, 1))]
       ELSE IF type = 128 THEN
         IF Len(b) < 3 THEN RangeError
         ELSE [err |-> FALSE, length |-> 3,
               value |-> BitOr(value * 65536, readUIntBE(b, 1, 2))]
       ELSE
         IF Len(b) < 4 THEN RangeError
         ELSE [err |-> FALSE, length |-> 4,
               value |-> BitOr(value * 16777216, readUIntBE(b, 1, 3))]

Thrown == [err |-> TRUE, bytes |-> <<>>]
Bytes(bs) == [err |-> FALSE, bytes |-> bs]

\* writeVarInt with the first size boundary off by one
writeVarIntBoundary(value) ==
  IF value < 0 THEN Thrown
  ELSE IF value <= 64 THEN Bytes(UIntBytesBE(value, 1))
  ELSE IF value < 16384 THEN Bytes(UIntBytesBE(BitOr(value, 16384), 2))
  ELSE IF value < 4194304 THEN Bytes(UIntBytesBE(BitOr(value, 8388608), 3))
  ELSE IF value < 1073741824 THEN
    LET raw == UIntBytesBE(value, 4)
    IN Bytes(<<BitOr(raw[1], 192)>> \o Tail(raw))
  ELSE Thrown

\* writeVarInt without the check of the upper end of the domain
writeVarIntUnchecked(value) ==
  IF value < 0 THEN Thrown
  ELSE IF value < 64 THEN Bytes(UIntBytesBE(value, 1))
  ELSE IF value < 16384 THEN Bytes(UIntBytesBE(BitOr(value, 16384), 2))
  ELSE IF value < 4194304 THEN Bytes(UIntBytesBE(BitOr(value, 8388608), 3))
  ELSE LET raw == UIntBytesBE(value, 4)
       IN Bytes(<<BitOr(raw[1] % 64, 192)>> \o Tail(raw))

\* the tag of the 4-octet form, 0xC0000000, is OR-ed into the first octet:
\* the 32-bit word itself is beyond the integers of the checker
writeVarInt(value) ==
  IF value < 0 THEN Thrown
  ELSE IF value < 64 THEN Bytes(UIntBytesBE(value, 1))
  ELSE IF value < 16384 THEN Bytes(UIntBytesBE(BitOr(value, 16384), 2))
  ELSE IF value < 4194304 THEN Bytes(UIntBytesBE(BitOr(value, 8388608), 3))
  ELSE IF value < 1073741824 THEN
    LET raw == UIntBytesBE(value, 4)
    IN Bytes(<<BitOr(raw[1], 192)>> \o Tail(raw))
  ELSE Thrown

(***************************************************************************)
(* UTF-8 (Buffer.byteLength, buf.write(str, ..., 'utf8'), toString('utf8')).*)
(***************************************************************************)
Utf8OfCodePoint(cp) ==
  IF cp < 128 THEN <<cp>>
  ELSE IF cp < 2048 THEN <<192 + (cp \div 64), 128 + (cp % 64)>>
  ELSE IF cp < 65536 THEN
    <<224 + (cp \div 4096), 128 + ((cp \div 64) % 64), 128 + (cp % 64)>>
  ELSE <<240 + (cp \div 262144), 128 + ((cp \div 4096) % 64),
         128 + ((cp \div 64) % 64), 128 + (cp % 64)>>

RECURSIVE Utf8Encode(_)
Utf8Encode(s) ==
  IF s = <<>> THEN <<>> ELSE Utf8OfCodePoint(Head(s)) \o Utf8Encode(Tail(s))

ReplacementChar == 65533

IsCont(bs, i, lo, hi) == i <= Len(bs) /\ bs[i] >= lo /\ bs[i] <= hi

\* toString('utf8') from byte i on: an ill-formed or cut-off sequence
\* becomes one U+FFFD per maximal subpart
RECURSIVE Utf8DecodeFrom(_, _)
Utf8DecodeFrom(bs, i) ==
  IF i > Len(bs) THEN <<>>
  ELSE
    LET b == bs[i]
        lo2 == IF b = 224 THEN 160 ELSE IF b = 240 THEN 144 ELSE 128
        hi2 == IF b = 237 THEN 159 ELSE IF b = 244 THEN 143 ELSE 191
    IN IF b < 128 THEN <<b>> \o Utf8DecodeFrom(bs, i + 1)
       ELSE IF b >= 194 /\ b <= 223 THEN
         IF IsCont(bs, i + 1, 128, 191)
         THEN <<(b - 192) * 64 + (bs[i + 1] - 128)>>
              \o Utf8DecodeFrom(bs, i + 2)
         ELSE <<ReplacementChar>> \o Utf8DecodeFrom(bs, i + 1)
       ELSE IF b >= 224 /\ b <= 239 THEN
         IF ~IsCont(bs, i + 1, lo2, hi2)
         THEN <<ReplacementChar>> \o Utf8DecodeFrom(bs, i + 1)
         ELSE IF ~IsCont(bs, i + 2, 128, 191)
         THEN <<ReplacementChar>> \o Utf8DecodeFrom(bs, i + 2)
         ELSE <<(b - 224) * 4096 + (bs[i + 1] - 128) * 64 + (bs[i + 2] - 128)>>
              \o Utf8DecodeFrom(bs, i + 3)
       ELSE IF b >= 240 /\ b <= 244 THEN
         IF ~IsCont(bs, i + 1, lo2, hi2)
         THEN <<ReplacementChar>> \o Utf8DecodeFrom(bs, i + 1)
         ELSE IF ~IsCont(bs, i + 2, 128, 191)
         THEN <<ReplacementChar>> \o Utf8DecodeFrom(bs, i + 2)
         ELSE IF ~IsCont(bs, i + 3, 128, 191)
         THEN <<ReplacementChar>> \o Utf8DecodeFrom(bs, i + 3)
         ELSE <<(b - 240) * 262144 + (bs[i + 1] - 128) * 4096
                + (bs[i + 2] - 128) * 64 + (bs[i + 3] - 128)>>
              \o Utf8DecodeFrom(bs, i + 4)
       ELSE <<ReplacementChar>> \o Utf8DecodeFrom(bs, i + 1)

Utf8Decode(bs) == Utf8DecodeFrom(bs, 1)

(***************************************************************************)
(* Length-prefixed strings.                                                *)
(***************************************************************************)
readUtf8(b, index) ==
  The({IF len.err THEN [err |-> TRUE, length |-> 0, value |-> <<>>]
       ELSE The({[err |-> FALSE, length |-> len.length + len.value,
                  value |-> Utf8Decode(value)] :
                 value \in {Slice(b, index + len.length,
                                  index + len.length + len.value)}}) :
       len \in {readVarInt(b, index)}})

\* writeUtf8 with the character count in place of the byte length
writeUtf8CharCount(s) ==
  The({The({IF n.err THEN Thrown ELSE Bytes(n.bytes \o payload) :
            n \in {writeVarInt(Len(s))}}) :
       payload \in {Utf8Encode(s)}})

writeUtf8(s) ==
  The({The({IF n.err THEN Thrown ELSE Bytes(n.bytes \o payload) :
            n \in {writeVarInt(Len(payload))}}) :
       payload \in {Utf8Encode(s)}})

(***************************************************************************)
(* CRC-32 (buffer-crc32), table driven.  A 32-bit word is the pair         *)
(* <<high 16 bits, low 16 bits>>.                                          *)
(***************************************************************************)
CrcShift1(c) ==
  LET hi == c[1] \div 2
      lo == (c[2] \div 2) + (c[1] % 2) * 32768
  IN IF c[2] % 2 = 1 THEN <<BitXor(hi, 60856), BitXor(lo, 33568)>>
     ELSE <<hi, lo>>

RECURSIVE CrcRounds(_, _)
CrcRounds(c, n) ==
  IF n = 0 THEN c
  ELSE The({CrcRounds(shifted, n - 1) : shifted \in {CrcShift1(c)}})

CrcTable == [i \in 0..255 |-> CrcRounds(<<0, i>>, 8)]

CrcUpdate(c, byte) ==
  LET t == CrcTable[BitXor(c[2] % 256, byte)]
      hi == c[1] \div 256
      lo == (c[2] \div 256) + (c[1] % 256) * 256
  IN <<BitXor(t[1], hi), BitXor(t[2], lo)>>

\* the register after bytes lo..hi of bs, starting from c: the loop over the
\* buffer, split in halves, the register of the first half handed to the
\* second, which keeps the evaluation shallow
RECURSIVE CrcFold(_, _, _, _)
CrcFold(c, bs, lo, hi) ==
  IF lo > hi THEN c
  ELSE IF lo = hi THEN The({CrcUpdate(reg, bs[lo]) : reg \in {c}})
  ELSE The({CrcFold(left, bs, ((lo + hi) \div 2) + 1, hi) :
            left \in {CrcFold(c, bs, lo, (lo + hi) \div 2)}})

crc32(bs) ==
  The({<<(65535 - c[1]) \div 256, (65535 - c[1]) % 256,
         (65535 - c[2]) \div 256, (65535 - c[2]) % 256>> :
       c \in {CrcFold(<<65535, 65535>>, bs, 1, Len(bs))}})

(***************************************************************************)
(* Protocol tables.                                                        *)
(***************************************************************************)
signature == 179

Null == "null"

\* the status table with the codes of 'skip' and 'fail' exchanged
statusFlagsSwapped ==
  [c \in 0..7 |->
     CASE c = 0 -> "null"       [] c = 1 -> "exists"
       [] c = 2 -> "inprogress" [] c = 3 -> "success"
       [] c = 4 -> "uxsuccess"  [] c = 5 -> "fail"
       [] c = 6 -> "skip"       [] c = 7 -> "xfail"]

statusFlags ==
  [c \in 0..7 |->
     CASE c = 0 -> Null        [] c = 1 -> "exists"
       [] c = 2 -> "inprogress" [] c = 3 -> "success"
       [] c = 4 -> "uxsuccess"  [] c = 5 -> "skip"
       [] c = 6 -> "fail"       [] c = 7 -> "xfail"]

flagMasks ==
  [testId |-> 2048, routeCode |-> 1024, timestamp |-> 512, runnable |-> 256,
   tags |-> 128, mimeType |-> 32, eof |-> 16, fileContent |-> 64]

(***************************************************************************)
(* ObjectToSubunitStream.prototype._transform.  The result is Thrown when  *)
(* the call throws and Bytes(packet) when it pushes a packet.              *)
(***************************************************************************)
\* Object.keys(statusFlags).find(...): the first code whose entry is the
\* status of the record, undefined when there is none
StatusFlagOf(status) ==
  LET hits == {c \in DOMAIN statusFlags : Some(statusFlags[c]) = status}
  IN IF hits = {} THEN Undefined
     ELSE Some(CHOOSE c \in hits : \A d \in hits : c <= d)

\* flags |= statusFlag: undefined contributes no bits
OrStatus(flags, statusFlag) ==
  IF IsDefined(statusFlag) THEN BitOr(flags, statusFlag[1]) ELSE flags

\* OrMetaFlags that also trusts the testId presence flag of the metadata
OrMetaFlagsTrusting(flags, packet) ==
  IF IsDefined(packet) /\ IsDefined(packet[1].flags)
  THEN LET f == packet[1].flags[1]
           a == IF f.runnable THEN BitOr(flags, 256) ELSE flags
           b == IF f.eof THEN BitOr(a, 16) ELSE a
       IN IF f.testId THEN BitOr(b, 2048) ELSE b
  ELSE flags

OrMetaFlags(flags, packet) ==
  IF IsDefined(packet) /\ IsDefined(packet[1].flags)
  THEN LET f == packet[1].flags[1]
           a == IF f.runnable THEN BitOr(flags, flagMasks.runnable) ELSE flags
       IN IF f.eof THEN BitOr(a, flagMasks.eof) ELSE a
  ELSE flags

OrIf(flags, present, mask) == IF present THEN BitOr(flags, mask) ELSE flags

\* buf.writeUInt32BE(seconds, 0) throws unless 0 <= seconds < 2^32
EncodeTimestamp(ts) ==
  LET seconds == [hi |-> ts.secHi, lo |-> ts.secLo]
      nanos == ts.ms * 1000000
      varNanos == writeVarInt(nanos)
  IN IF varNanos.err \/ seconds.hi < 0 \/ seconds.hi > 65535 THEN Thrown
     ELSE Bytes(UIntBytesBE(seconds.hi, 2) \o UIntBytesBE(seconds.lo, 2)
                \o varNanos.bytes)

\* concatenation of two encoded parts, thrown when either threw
Cat(a, b) ==
  The({IF x.err \/ y.err THEN Thrown ELSE Bytes(x.bytes \o y.bytes) :
       x \in {a}, y \in {b}})

RECURSIVE EncodeTagList(_)
EncodeTagList(tags) ==
  IF tags = <<>> THEN Bytes(<<>>)
  ELSE Cat(writeUtf8(Head(tags)), EncodeTagList(Tail(tags)))

EncodeTags(tags) == Cat(writeVarInt(Len(tags)), EncodeTagList(tags))

EncodeFile(name, content) ==
  Cat(writeUtf8(name), Cat(writeVarInt(Len(content)), Bytes(content)))

HasFile(c) == IsDefined(c.fileName) /\ IsDefined(c.fileContent)

\* EncodeFlags that sets the fileContent bit for a file name alone
EncodeFlagsNameOnly(c) ==
  LET f0 == OrStatus(8192, StatusFlagOf(c.status))
      f1 == OrMetaFlags(f0, c._packet)
      f2 == OrIf(f1, IsDefined(c.timestamp), flagMasks.timestamp)
      f3 == OrIf(f2, IsDefined(c.testId), flagMasks.testId)
      f4 == OrIf(f3, IsDefined(c.tags), flagMasks.tags)
      f5 == OrIf(f4, IsDefined(c.mimeType), flagMasks.mimeType)
      f6 == OrIf(f5, IsDefined(c.fileName), flagMasks.fileContent)
  IN OrIf(f6, IsDefined(c.routeCode), flagMasks.routeCode)

EncodeFlags(c) ==
  LET f0 == OrStatus(8192, StatusFlagOf(c.status))
      f1 == OrMetaFlags(f0, c._packet)
      f2 == OrIf(f1, IsDefined(c.timestamp), flagMasks.timestamp)
      f3 == OrIf(f2, IsDefined(c.testId), flagMasks.testId)
      f4 == OrIf(f3, IsDefined(c.tags), flagMasks.tags)
      f5 == OrIf(f4, IsDefined(c.mimeType), flagMasks.mimeType)
      f6 == OrIf(f5, HasFile(c), flagMasks.fileContent)
  IN OrIf(f6, IsDefined(c.routeCode), flagMasks.routeCode)

EncodeBody(c) ==
  LET none == Bytes(<<>>)
      p1 == IF IsDefined(c.timestamp) THEN EncodeTimestamp(c.timestamp[1])
            ELSE none
      p2 == IF IsDefined(c.testId) THEN writeUtf8(c.testId[1]) ELSE none
      p3 == IF IsDefined(c.tags) THEN EncodeTags(c.tags[1]) ELSE none
      p4 == IF IsDefined(c.mimeType) THEN writeUtf8(c.mimeType[1]) ELSE none
      p5 == IF HasFile(c) THEN EncodeFile(c.fileName[1], c.fileContent[1])
            ELSE none
      p6 == IF IsDefined(c.routeCode) THEN writeUtf8(c.routeCode[1]) ELSE none
  IN Cat(p1, Cat(p2, Cat(p3, Cat(p4, Cat(p5, p6)))))

\* LengthLength with the first boundary one too high
LengthLengthBoundary(baseLength) ==
  IF baseLength <= 63 THEN 1
  ELSE IF baseLength <= 16381 THEN 2
  ELSE IF baseLength <= 4194300 THEN 3
  ELSE 0

\* 0 stands for the throw of 'Length too long'
LengthLength(baseLength) ==
  IF baseLength <= 62 THEN 1
  ELSE IF baseLength <= 16381 THEN 2
  ELSE IF baseLength <= 4194300 THEN 3
  ELSE 0

\* EncodeLength that leaves the signature and flag bytes out of the count
EncodeLengthFromField(baseLength) ==
  IF LengthLength(baseLength) = 0 THEN Thrown
  ELSE writeVarInt(baseLength - 3 + LengthLength(baseLength))

\* the length field for a packet of baseLength bytes without it
EncodeLength(baseLength) ==
  IF LengthLength(baseLength) = 0 THEN Thrown
  ELSE writeVarInt(baseLength + LengthLength(baseLength))

Encode(c) ==
  The({IF bodyBuf.err THEN Thrown
       ELSE
         The({IF length.err THEN Thrown
              ELSE The({Bytes(partial \o crc32(partial)) :
                        partial \in
                          {header \o length.bytes \o bodyBuf.bytes}}) :
              header \in {<<signature>> \o UIntBytesBE(flags, 2)},
              length \in {EncodeLength(3 + Len(bodyBuf.bytes) + 4)}}) :
       flags \in {EncodeFlags(c)}, bodyBuf \in {EncodeBody(c)}})

(***************************************************************************)
(* SubunitToObjectStream.prototype._transform.                             *)
(***************************************************************************)
\* bl.readUInt8 / readUInt16BE / readUInt32BE(at): bl slices the n bytes and
\* Buffer throws a RangeError when the slice is short
CanRead(b, at, n) == at + n <= Len(b)

PacketFlags(flags) ==
  [flag \in DOMAIN flagMasks |-> BitAnd(flags, flagMasks[flag]) # 0]

NewRet(flags) ==
  [status |-> Some(statusFlags[BitAnd(flags, 7)]), timestamp |-> Undefined,
   testId |-> Undefined, tags |-> Undefined, mimeType |-> Undefined,
   fileName |-> Undefined, fileContent |-> Undefined,
   routeCode |-> Undefined, _packet |-> Undefined]

\* half the spacing of the double-precision numbers around a count of
\* milliseconds, in nanoseconds and rounded down; top is the count divided
\* by 2^16 (the spacing is 2^(e-52) ms for a count in [2^e, 2^(e+1)))
HalfUlpNanos(top) ==
  IF top >= 33554432 THEN 244
  ELSE IF top >= 16777216 THEN 122
  ELSE IF top >= 8388608 THEN 61
  ELSE IF top >= 4194304 THEN 30
  ELSE IF top >= 2097152 THEN 15
  ELSE IF top >= 1048576 THEN 7
  ELSE IF top >= 524288 THEN 3
  ELSE IF top >= 262144 THEN 1
  ELSE 0

\* new Date(seconds * 1000 + nanos / 1000000).  The sum is a double: it is
\* the next whole millisecond when the nanoseconds are within half a
\* spacing below it; the fraction that is left is dropped by the Date
MakeDate(b, at, nanos) ==
  LET seconds == [hi |-> b[at + 1] * 256 + b[at + 2],
                  lo |-> b[at + 3] * 256 + b[at + 4]]
      whole == nanos \div 1000000
      below == 1000000 - (nanos % 1000000)
      top == seconds.hi * 1000 + ((seconds.lo * 1000 + whole) \div 65536)
      total == IF below < 1000000 /\ below <= HalfUlpNanos(top)
               THEN whole + 1 ELSE whole
      lo == seconds.lo + (total \div 1000)
      hi == seconds.hi + (lo \div 65536)
  IN [secHi |-> hi, secLo |-> lo % 65536, ms |-> total % 1000]

Fail(st) == [st EXCEPT !.err = TRUE]

\* each read takes the state st = [err, o, ret] of the pass: err once a
\* RangeError was thrown (nothing is read after it), o the cursor, ret the
\* record under construction
ReadTimestamp(b, st) ==
  The({IF s.err \/ ~CanRead(b, s.o, 4) THEN Fail(s)
       ELSE The({IF nanos.err THEN Fail(s)
                 ELSE [err |-> FALSE, o |-> s.o + 4 + nanos.length,
                       ret |-> [s.ret EXCEPT
                                  !.timestamp =
                                     Some(MakeDate(b, s.o, nanos.value))]] :
                 nanos \in {readVarInt(b, s.o + 4)}}) :
       s \in {st}})

ReadString(b, st, field) ==
  The({IF s.err THEN s
       ELSE The({IF str1.err THEN Fail(s)
                 ELSE [err |-> FALSE, o |-> s.o + str1.length,
                       ret |-> [s.ret EXCEPT ![field] = Some(str1.value)]] :
                 str1 \in {readUtf8(b, s.o)}}) :
       s \in {st}})

\* for (i = 0; i < count.value; i++): n tags still to read at o
RECURSIVE ReadTagList(_, _, _, _)
ReadTagList(b, o, n, tags) ==
  IF n = 0 THEN [err |-> FALSE, o |-> o, tags |-> tags]
  ELSE The({IF tag.err THEN [err |-> TRUE, o |-> at, tags |-> <<>>]
            ELSE ReadTagList(b, at + tag.length, n - 1,
                             Append(sofar, tag.value)) :
            tag \in {readUtf8(b, o)}, at \in {o}, sofar \in {tags}})

ReadTags(b, st) ==
  The({IF s.err THEN s
       ELSE The({IF count.err THEN Fail(s)
                 ELSE The({IF l.err THEN Fail(s)
                           ELSE [err |-> FALSE, o |-> l.o,
                                 ret |-> [s.ret EXCEPT
                                            !.tags = Some(l.tags)]] :
                           l \in {ReadTagList(b, s.o + count.length,
                                              count.value, <<>>)}}) :
                 count \in {readVarInt(b, s.o)}}) :
       s \in {st}})

ReadFile(b, st) ==
  The({IF s.err THEN s
       ELSE The({IF name.err THEN Fail(s)
                 ELSE The({IF fileLength.err THEN Fail(s)
                           ELSE LET at == s.o + name.length
                                            + fileLength.length
                                IN [err |-> FALSE,
                                    o |-> at + fileLength.value,
                                    ret |-> [s.ret EXCEPT
                                      !.fileName = Some(name.value),
                                      !.fileContent =
                                        Some(Slice(b, at,
                                                   at + fileLength.value))]] :
                           fileLength \in
                             {readVarInt(b, s.o + name.length)}}) :
                 name \in {readUtf8(b, s.o)}}) :
       s \in {st}})

\* ReadOptionals that reads the fields in the order of the flagMasks table
ReadOptionalsMaskOrder(b, f, st0) ==
  LET s1 == IF f.testId THEN ReadString(b, st0, "testId") ELSE st0
      s2 == IF f.routeCode THEN ReadString(b, s1, "routeCode") ELSE s1
      s3 == IF f.timestamp THEN ReadTimestamp(b, s2) ELSE s2
      s4 == IF f.tags THEN ReadTags(b, s3) ELSE s3
      s5 == IF f.mimeType THEN ReadString(b, s4, "mimeType") ELSE s4
  IN IF f.fileContent THEN ReadFile(b, s5) ELSE s5

\* the six if-blocks of the loop body, in the order of the code
ReadOptionals(b, f, st0) ==
  LET s1 == IF f.timestamp THEN ReadTimestamp(b, st0) ELSE st0
      s2 == IF f.testId THEN ReadString(b, s1, "testId") ELSE s1
      s3 == IF f.tags THEN ReadTags(b, s2) ELSE s2
      s4 == IF f.mimeType THEN ReadString(b, s3, "mimeType") ELSE s3
      s5 == IF f.fileContent THEN ReadFile(b, s4) ELSE s4
  IN IF f.routeCode THEN ReadString(b, s5, "routeCode") ELSE s5

\* ParseAt that pushes a record only when the checksum is that of the packet
ParseAtVerifying(b, p, hasListener) ==
  LET none == [kind |-> "range", error |-> FALSE, ret |-> NewRet(0),
               length |-> 0]
  IN
  IF ~CanRead(b, p, 1) \/ ~CanRead(b, p + 1, 2) THEN none
  ELSE
    The({IF packetLength.err THEN none
         ELSE IF bad /\ ~hasListener THEN [none EXCEPT !.kind = "throw"]
         ELSE
           The({IF st.err THEN [none EXCEPT !.error = bad]
                ELSE IF Slice(b, p + packetLength.value - 4,
                              p + packetLength.value)
                        # crc32(Slice(b, p, p + packetLength.value - 4))
                THEN [none EXCEPT !.error = bad]
                ELSE [kind |-> "ok", error |-> bad,
                      ret |-> [st.ret EXCEPT
                                 !._packet =
                                    Some([length |-> packetLength.value,
                                          flags |-> Some(f)])],
                      length |-> packetLength.value] :
                st \in {ReadOptionals(b, f,
                          [err |-> FALSE, o |-> p + 3 + packetLength.length,
                           ret |-> NewRet(flags)])}}) :
         bad \in {b[p + 1] # signature},
         flags \in {b[p + 2] * 256 + b[p + 3]},
         f \in {PacketFlags(b[p + 2] * 256 + b[p + 3])},
         packetLength \in {readVarInt(b, p + 3)}})

\* one pass of the while loop at cursor p.  kind is "range" when a
\* RangeError ended the pass, "throw" when the 'error' event had no
\* listener, "ok" when a record was pushed; error tells whether the
\* 'error' event was emitted
ParseAt(b, p, hasListener) ==
  LET none == [kind |-> "range", error |-> FALSE, ret |-> NewRet(0),
               length |-> 0]
  IN
  IF ~CanRead(b, p, 1) \/ ~CanRead(b, p + 1, 2) THEN none
  ELSE
    The({IF packetLength.err THEN none
         ELSE IF bad /\ ~hasListener THEN [none EXCEPT !.kind = "throw"]
         ELSE
           The({IF st.err THEN [none EXCEPT !.error = bad]
                ELSE [kind |-> "ok", error |-> bad,
                      ret |-> [st.ret EXCEPT
                                 !._packet =
                                    Some([length |-> packetLength.value,
                                          flags |-> Some(f)])],
                      length |-> packetLength.value] :
                st \in {ReadOptionals(b, f,
                          [err |-> FALSE, o |-> p + 3 + packetLength.length,
                           ret |-> NewRet(flags)])}}) :
         bad \in {b[p + 1] # signature},
         flags \in {b[p + 2] * 256 + b[p + 3]},
         f \in {PacketFlags(b[p + 2] * 256 + b[p + 3])},
         packetLength \in {readVarInt(b, p + 3)}})

\* Drain that steps over the three header bytes on top of the length
RECURSIVE DrainSkipHeader(_, _, _, _, _)
DrainSkipHeader(b, off, recs, errs, hasListener) ==
  The({IF ~(at < Len(b)) THEN stop
       ELSE
         The({IF r.kind = "range"
              THEN [stop EXCEPT
                      !.errors = IF r.error THEN Append(errs, at) ELSE errs]
              ELSE IF r.kind = "throw" THEN [stop EXCEPT !.thrown = TRUE]
              ELSE IF r.length = 0
              THEN [stop EXCEPT
                      !.errors = IF r.error THEN Append(errs, at) ELSE errs,
                      !.pushed = Append(recs, r.ret),
                      !.spinning = TRUE]
              ELSE DrainSkipHeader(b, at + r.length + 3,
                         Append(stop.pushed, r.ret),
                         IF r.error THEN Append(stop.errors, at)
                         ELSE stop.errors,
                         hasListener) :
              r \in {ParseAt(b, at, hasListener)}}) :
       at \in {off},
       stop \in {[offset |-> off, pushed |-> recs, errors |-> errs,
                  thrown |-> FALSE, spinning |-> FALSE]}})

\* the while loop over the buffer b from cursor off on.  A pass that pushes
\* a record of declared length 0 leaves bl and offset as they were, so the
\* loop repeats it without end: spinning
RECURSIVE Drain(_, _, _, _, _)
Drain(b, off, recs, errs, hasListener) ==
  The({IF ~(at < Len(b)) THEN stop
       ELSE
         The({IF r.kind = "range"
              THEN [stop EXCEPT
                      !.errors = IF r.error THEN Append(errs, at) ELSE errs]
              ELSE IF r.kind = "throw" THEN [stop EXCEPT !.thrown = TRUE]
              ELSE IF r.length = 0
              THEN [stop EXCEPT
                      !.errors = IF r.error THEN Append(errs, at) ELSE errs,
                      !.pushed = Append(recs, r.ret),
                      !.spinning = TRUE]
              ELSE Drain(b, at + r.length, Append(stop.pushed, r.ret),
                         IF r.error THEN Append(stop.errors, at)
                         ELSE stop.errors,
                         hasListener) :
              r \in {ParseAt(b, at, hasListener)}}) :
       at \in {off},
       stop \in {[offset |-> off, pushed |-> recs, errors |-> errs,
                  thrown |-> FALSE, spinning |-> FALSE]}})

(***************************************************************************)
(* Bounds and inputs.                                                      *)
(***************************************************************************)
VarIntSpread == 4      \* half-width of the window around each size boundary
MaxStrLen == 3         \* longest string drawn from Alphabet
MaxWrites == 2         \* most chunks handed to one decoder

\* the size-class boundaries of writeVarInt, both ends of its domain included
VarIntEdges == {0, 64, 16384, 4194304, 1073741824}

VarIntInputs ==
  {e + d : e \in VarIntEdges, d \in (0 - VarIntSpread)..VarIntSpread}

\* 'a', e-acute (2 bytes), euro sign (3 bytes), U+1F600 (4 bytes)
Alphabet == {97, 233, 8364, 128512}

Repeat(cp, n) == [i \in 1..n |-> cp]

Strings ==
  UNION {[1..n -> Alphabet] : n \in 0..MaxStrLen}
    \cup {Repeat(97, 63), Repeat(97, 64), Repeat(233, 32)}

S(cps) == Some(cps)

T1 == <<84, 49>>
Date1 == [secHi |-> 18838, secLo |-> 722, ms |-> 123]
DateEpoch == [secHi |-> 0, secLo |-> 0, ms |-> 0]
DateBefore == [secHi |-> 0 - 1, secLo |-> 65535, ms |-> 999]
DateBeyond == [secHi |-> 65536, secLo |-> 0, ms |-> 0]
DateLast == [secHi |-> 65535, secLo |-> 65535, ms |-> 999]

NoFlags == [flag \in DOMAIN flagMasks |-> FALSE]
Meta(len, f) == Some([length |-> len, flags |-> f])

MetaValues ==
  {Undefined, Meta(0, Undefined), Meta(12, Some(NoFlags)),
   Meta(7, Some([NoFlags EXCEPT !.runnable = TRUE])),
   Meta(7, Some([NoFlags EXCEPT !.eof = TRUE])),
   Meta(99, Some([NoFlags EXCEPT !.runnable = TRUE, !.eof = TRUE,
                                 !.testId = TRUE, !.fileContent = TRUE])),
   Meta(3, Some([flag \in DOMAIN flagMasks |-> TRUE]))}

StatusValues ==
  {Undefined, Some("bogus")} \cup {Some(statusFlags[c]) : c \in 0..7}

Blank ==
  [status |-> Undefined, timestamp |-> Undefined, testId |-> Undefined,
   tags |-> Undefined, mimeType |-> Undefined, fileName |-> Undefined,
   fileContent |-> Undefined, routeCode |-> Undefined, _packet |-> Undefined]

\* every subset of the optional fields, with and without a status
RecordsByFields ==
  [status : {Undefined, Some("success")},
   timestamp : {Undefined, Some(Date1)},
   testId : {Undefined, S(T1)},
   tags : {Undefined, Some(<<<<97>>, <<98>>>>)},
   mimeType : {Undefined, S(<<116, 47, 112>>)},
   fileName : {Undefined, S(<<102>>)},
   fileContent : {Undefined, Some(<<0, 179, 255>>)},
   routeCode : {Undefined, S(<<114>>)},
   _packet : {Undefined}]

\* every status and every shape of metadata
RecordsByStatus ==
  {[Blank EXCEPT !.status = s, !.testId = t, !._packet = m] :
     s \in StatusValues, t \in {Undefined, S(T1)}, m \in MetaValues}

\* values at the edges of each field
RecordsByValue ==
  {[Blank EXCEPT !.timestamp = Some(d)] :
     d \in {DateEpoch, DateBefore, DateBeyond, DateLast}}
  \cup {[Blank EXCEPT !.testId = Some(s), !.routeCode = r] :
          s \in Strings, r \in {Undefined, S(<<233>>)}}
  \cup {[Blank EXCEPT !.tags = Some(t)] :
          t \in {<<>>, <<<<>>>>, <<<<233>>, <<>>, <<97, 98>>>>}}
  \cup {[Blank EXCEPT !.fileName = S(n), !.fileContent = Some(c),
                      !.status = Some("fail")] :
          n \in {<<>>, <<8364>>}, c \in {<<>>, <<7>>, Repeat(0, 70)}}

Records == RecordsByFields \cup RecordsByStatus \cup RecordsByValue

\* the records sent through the chunked decoder
StreamRecords ==
  {[Blank EXCEPT !.status = Some("success")],
   [Blank EXCEPT !.testId = S(T1)],
   [Blank EXCEPT !.status = Some("success"), !.timestamp = Some(Date1),
                 !.testId = S(T1), !.tags = Some(<<<<97>>, <<98>>>>)],
   [Blank EXCEPT !.mimeType = S(<<116>>), !.routeCode = S(<<233>>)],
   [Blank EXCEPT !.fileName = S(<<102>>), !.fileContent = Some(<<1, 2, 3>>),
                 !._packet = Meta(0, Some([NoFlags EXCEPT !.eof = TRUE]))],
   [Blank EXCEPT !.fileName = S(<<102>>), !.testId = S(<<>>)],
   [Blank EXCEPT !.fileContent = Some(<<1, 2, 3>>), !.status = Some("skip")],
   [Blank EXCEPT !.status = Some("fail"), !.timestamp = Some(DateBefore)]}

\* bytes that are not the signature
StrayBytes == {0, 65, 255}

(***************************************************************************)
(* State machines.                                                         *)
(***************************************************************************)
NoBytes == Bytes(<<>>)
NoResult == [err |-> FALSE, length |-> 0, value |-> <<>>]

CodecIdle == num = 0 /\ str = <<>> /\ buf = NoBytes /\ res = NoResult

FreshEncoder == chunk = Undefined /\ out = <<>> /\ encErr = FALSE

\* a new SubunitToObjectStream, nothing written to it yet
FreshDecoder ==
  /\ pipe = <<>> /\ nwrites = 0 /\ bl = <<>> /\ offset = 0
  /\ pushed = <<>> /\ errors = <<>> /\ thrown = FALSE /\ spinning = FALSE

\* ---- the integer codec on its own
InitVarInt ==
  /\ pc = "input" /\ num \in VarIntInputs
  /\ str = <<>> /\ buf = NoBytes /\ res = NoResult
  /\ FreshEncoder /\ FreshDecoder /\ listening = TRUE

CallWriteVarInt ==
  /\ pc = "input"
  /\ buf' = writeVarInt(num)
  /\ pc' = "written"
  /\ UNCHANGED <<num, str, res, encVars, decVars>>

CallReadVarInt ==
  /\ pc = "written" /\ ~buf.err
  /\ res' = readVarInt(buf.bytes, 0)
  /\ pc' = "read"
  /\ UNCHANGED <<num, str, buf, encVars, decVars>>

NextVarInt == CallWriteVarInt \/ CallReadVarInt

SpecVarInt == InitVarInt /\ [][NextVarInt]_vars

\* ---- the string codec on its own
InitUtf8 ==
  /\ pc = "input" /\ str \in Strings
  /\ num = 0 /\ buf = NoBytes /\ res = NoResult
  /\ FreshEncoder /\ FreshDecoder /\ listening = TRUE

CallWriteUtf8 ==
  /\ pc = "input"
  /\ buf' = writeUtf8(str)
  /\ pc' = "written"
  /\ UNCHANGED <<num, str, res, encVars, decVars>>

CallReadUtf8 ==
  /\ pc = "written" /\ ~buf.err
  /\ res' = readUtf8(buf.bytes, 0)
  /\ pc' = "read"
  /\ UNCHANGED <<num, str, buf, encVars, decVars>>

NextUtf8 == CallWriteUtf8 \/ CallReadUtf8

SpecUtf8 == InitUtf8 /\ [][NextUtf8]_vars

\* ---- encoder piped into decoder
InitStream ==
  /\ pc = "stream" /\ CodecIdle
  /\ FreshEncoder /\ FreshDecoder /\ listening \in BOOLEAN

\* ObjectToSubunitStream.write(c): one call of _transform; a pushed packet
\* travels down the pipe to the decoder
EncoderTransform(c) ==
  /\ chunk' = Some(c)
  /\ \E r \in {Encode(c)} :
       /\ encErr' = r.err
       /\ out' = IF r.err THEN out ELSE Append(out, r.bytes)
       /\ pipe' = IF r.err THEN pipe ELSE pipe \o r.bytes
  /\ UNCHANGED <<pc, codecVars, nwrites, bl, offset, pushed, errors,
                 listening, thrown, spinning>>

\* SubunitToObjectStream.write(first n bytes of the pipe): one call of
\* _transform
DecoderTransform(n) ==
  /\ ~thrown /\ ~spinning
  /\ n \in 1..Len(pipe)
  /\ \E b \in {bl \o SubSeq(pipe, 1, n)} :
       \E d \in {Drain(b, offset, pushed, errors, listening)} :
         /\ bl' = b
         /\ offset' = d.offset
         /\ pushed' = d.pushed
         /\ errors' = d.errors
         /\ thrown' = d.thrown
         /\ spinning' = d.spinning
  /\ pipe' = SubSeq(pipe, n + 1, Len(pipe))
  /\ nwrites' = nwrites + 1
  /\ UNCHANGED <<pc, codecVars, encVars, listening>>

\* one record is encoded
WriteRecord ==
  /\ chunk = Undefined
  /\ \E c \in StreamRecords : EncoderTransform(c)

\* a byte that is not the signature reaches the decoder ahead of the packet
StrayByte ==
  /\ chunk = Undefined /\ pipe = <<>> /\ bl = <<>>
  /\ \E b \in StrayBytes : pipe' = <<b>>
  /\ UNCHANGED <<pc, codecVars, encVars, nwrites, bl, offset, pushed,
                 errors, listening, thrown, spinning>>

\* the transport hands the decoder the next chunk, of any size
WriteChunk ==
  /\ chunk # Undefined
  /\ nwrites < MaxWrites
  /\ \E n \in 1..Len(pipe) : DecoderTransform(n)

Next == WriteRecord \/ StrayByte \/ WriteChunk

Spec == InitStream /\ [][Next]_vars

\* ---- one record encoded and its packet decoded as a single chunk
EncodeRecord ==
  /\ chunk = Undefined
  /\ \E c \in Records : EncoderTransform(c)

DecodePacket ==
  /\ chunk # Undefined /\ pipe # <<>>
  /\ DecoderTransform(Len(pipe))

NextWhole == EncodeRecord \/ DecodePacket

SpecWhole == InitStream /\ [][NextWhole]_vars

(***************************************************************************)
(* Packets of other producers, handed to the decoder as they are.          *)
(***************************************************************************)
\* a packet with the given flag field, length field and body, checksummed
WirePacket(flags, length, body) ==
  The({partial \o crc32(partial) :
       partial \in {<<signature>> \o UIntBytesBE(flags, 2) \o length \o body}})

\* a packet whose length field is in its shortest form
Framed(flags, body) ==
  WirePacket(flags, EncodeLength(3 + Len(body) + 4).bytes, body)

\* seconds since the epoch as <<high 16 bits, low 16 bits>>: 0, 1,
\* 17179870 (1970), 1234567890 (2009), 2300000000 (2042), 2^32 - 1
ForeignSeconds ==
  {<<0, 0>>, <<0, 1>>, <<262, 9566>>, <<18838, 722>>, <<35095, 14848>>,
   <<65535, 65535>>}

ForeignNanos ==
  {0, 1, 999999, 1000000, 1999755, 1999999, 123456789, 999000000, 999999999}

\* timestamp 0x0200 and nothing else
TimestampPackets ==
  {Framed(8192 + 512,
          UIntBytesBE(s[1], 2) \o UIntBytesBE(s[2], 2)
            \o writeVarInt(n).bytes) :
     s \in ForeignSeconds, n \in ForeignNanos}

\* well-formed packets with an integer in a longer form than it needs:
\* the length field, the length of the testId, the nanoseconds, the tag count
PaddedPackets ==
  {WirePacket(8192 + 3, <<64, 9>>, <<>>),
   WirePacket(8192 + 2048, <<12>>, <<64, 2, 84, 49>>),
   WirePacket(8192 + 512, <<16>>, <<73, 150, 2, 210, 192, 0, 0, 0>>),
   WirePacket(8192 + 128 + 16, <<12>>, <<128, 0, 1, 0>>)}

\* the packets this encoder emits for Records
EncoderPackets == {r.bytes : r \in {e \in {Encode(c) : c \in Records} : ~e.err}}

\* packets of the encoder with a checksum that is not theirs
BadCrcPackets ==
  The({{[p EXCEPT ![Len(p)] = 255 - p[Len(p)]] : p \in good}
       \cup {SubSeq(p, 1, Len(p) - 4) \o <<0, 0, 0, 0>> : p \in good} :
       good \in {{r.bytes :
                   r \in {e \in {Encode(c) : c \in StreamRecords} :
                            ~e.err}}}})

ChainPackets ==
  EncoderPackets \cup TimestampPackets \cup PaddedPackets \cup BadCrcPackets

\* ---- README, Chaining: a decoder piped into an encoder piped into a
\* decoder; each packet travels whole
InitChain ==
  /\ pc = "chain" /\ CodecIdle /\ FreshEncoder
  /\ pipe \in ChainPackets /\ nwrites = 0 /\ bl = <<>> /\ offset = 0
  /\ pushed = <<>> /\ errors = <<>> /\ thrown = FALSE /\ spinning = FALSE
  /\ listening = TRUE

\* the packet in the pipe is handed to the decoder
ChainDecode ==
  /\ pipe # <<>>
  /\ DecoderTransform(Len(pipe))

\* the record the decoder pushed is written to the encoder
ChainEncode ==
  /\ chunk = Undefined /\ pipe = <<>> /\ Len(pushed) = 1
  /\ EncoderTransform(pushed[1])

NextChain == ChainDecode \/ ChainEncode

SpecChain == InitChain /\ [][NextChain]_vars

\* ---- the length field on its own
LengthEdges == {12, 62, 1000, 16381, 100000, 4194300}

LengthInputs ==
  {e + d : e \in LengthEdges, d \in (0 - VarIntSpread)..VarIntSpread}

InitLength ==
  /\ pc = "input" /\ num \in LengthInputs
  /\ str = <<>> /\ buf = NoBytes /\ res = NoResult
  /\ FreshEncoder /\ FreshDecoder /\ listening = TRUE

CallEncodeLength ==
  /\ pc = "input"
  /\ buf' = EncodeLength(num)
  /\ pc' = "written"
  /\ UNCHANGED <<num, str, res, encVars, decVars>>

CallReadLength ==
  /\ pc = "written" /\ ~buf.err
  /\ res' = readVarInt(buf.bytes, 0)
  /\ pc' = "read"
  /\ UNCHANGED <<num, str, buf, encVars, decVars>>

NextLength == CallEncodeLength \/ CallReadLength

SpecLength == InitLength /\ [][NextLength]_vars

\* ---- several packets through the pipe, delivered in chunks of any size
MaxPackets == 2        \* most records written to one encoder

\* one record whose packet is pushed as soon as its header has arrived, one
\* whose timestamp makes the decoder wait
ManyRecords ==
  {[Blank EXCEPT !.testId = S(T1)],
   [Blank EXCEPT !.status = Some("success"), !.timestamp = Some(DateEpoch)]}

WriteNext ==
  /\ Len(out) < MaxPackets
  /\ \E c \in ManyRecords : EncoderTransform(c)

DeliverChunk == \E n \in 1..Len(pipe) : DecoderTransform(n)

NextMany == WriteNext \/ DeliverChunk

InitMany == InitStream /\ listening

SpecMany == InitMany /\ [][NextMany]_vars

\* ---- one encoder written to several times
MaxEncodes == 2        \* most packets emitted by one encoder

EncoderRecords ==
  {[Blank EXCEPT !.status = Some("success")],
   [Blank EXCEPT !.testId = S(T1), !.timestamp = Some(Date1)],
   [Blank EXCEPT !.tags = Some(<<<<97>>>>), !.status = Some("fail")],
   [Blank EXCEPT !.routeCode = S(<<114>>)],
   [Blank EXCEPT !.mimeType = S(<<116>>), !.status = Some("skip")],
   [Blank EXCEPT !.timestamp = Some(DateBefore)],
   [Blank EXCEPT !.timestamp = Some(DateBeyond), !.testId = S(T1)]}

\* write(c) to an encoder none of whose calls has thrown
WriteFirst ==
  /\ ~encErr /\ Len(out) < MaxEncodes
  /\ \E c \in EncoderRecords : EncoderTransform(c)

\* write(c) after a call of _transform has thrown.  stream.Transform is
\* told of the end of a call by next(), which the throw skipped; the stream
\* documentation leaves the outcome of a throw undefined: the call is made
\* as usual, or the record is queued behind the call that never ended
WriteAfterThrow ==
  /\ encErr /\ Len(out) < MaxEncodes
  /\ \E c \in EncoderRecords :
       \/ EncoderTransform(c)
       \/ /\ chunk' = Some(c)
          /\ UNCHANGED <<pc, codecVars, out, encErr, decVars>>

NextEncoder == WriteFirst \/ WriteAfterThrow

SpecEncoder == InitStream /\ [][NextEncoder]_vars

(***************************************************************************)
(* Properties of the integer codec (SpecVarInt).                           *)
(***************************************************************************)
MaxVarInt == 1073741823

\* the size class the wire format documents for n
SizeClass(n) ==
  IF n <= 63 THEN 1 ELSE IF n <= 16383 THEN 2 ELSE IF n <= 4194303 THEN 3
  ELSE 4

InDomain(n) == 0 <= n /\ n <= MaxVarInt

\* C4: for every integer n with 0 <= n <= 1073741823, writeVarInt(n) has
\* the number of bytes of n's size class (1, 2, 3 or 4), the top two bits of
\* its first byte are the size tag 00/01/10/11, and readVarInt of it returns
\* the value n and a consumed length equal to the number of bytes written.
VarIntRoundTrip ==
  /\ (pc # "input" /\ InDomain(num)) =>
       /\ ~buf.err
       /\ Len(buf.bytes) = SizeClass(num)
       /\ buf.bytes[1] \div 64 = SizeClass(num) - 1
  /\ pc = "read" =>
       /\ ~res.err
       /\ res.value = num
       /\ res.length = Len(buf.bytes)

VarIntRoundTripWitness ==
  pc = "read" /\ num = 4194304 /\ res.value = 4194304 /\ res.length = 4

\* C5: writeVarInt throws, and returns no bytes, for every negative value
\* and for every value >= 1073741824; it succeeds for every integer in
\* between.
VarIntDomain ==
  pc # "input" =>
    /\ buf.err <=> (num < 0 \/ num >= 1073741824)
    /\ buf.err => buf.bytes = <<>>
    /\ ~buf.err => buf.bytes # <<>>

VarIntDomainWitness ==
  pc = "written" /\ num = 1073741824 /\ buf.err

(***************************************************************************)
(* Properties of the string codec (SpecUtf8).                              *)
(***************************************************************************)
\* number of UTF-8 bytes of a code point
Utf8Size(cp) ==
  IF cp < 128 THEN 1 ELSE IF cp < 2048 THEN 2 ELSE IF cp < 65536 THEN 3 ELSE 4

RECURSIVE Utf8ByteLength(_)
Utf8ByteLength(s) ==
  IF s = <<>> THEN 0 ELSE Utf8Size(Head(s)) + Utf8ByteLength(Tail(s))

\* C6: for every string s, readUtf8 of writeUtf8(s) at index 0 returns the
\* value s and a consumed length equal to the length of the varint prefix
\* plus the UTF-8 byte length of s (not its character count); the empty
\* string encodes to the single byte 0x00.
StringRoundTrip ==
  /\ pc # "input" =>
       /\ ~buf.err
       /\ Len(buf.bytes) = SizeClass(Utf8ByteLength(str)) + Utf8ByteLength(str)
       /\ str = <<>> => buf.bytes = <<0>>
  /\ pc = "read" =>
       /\ ~res.err
       /\ res.value = str
       /\ res.length = SizeClass(Utf8ByteLength(str)) + Utf8ByteLength(str)

StringRoundTripWitness ==
  /\ pc = "read" /\ str = <<8364, 128512>>
  /\ res.value = str /\ res.length = 8 /\ Len(str) = 2

(***************************************************************************)
(* Properties of one record encoded and decoded as one chunk (SpecWhole).  *)
(***************************************************************************)
Encoded == chunk # Undefined /\ ~encErr /\ out # <<>>

\* SpecWhole: the packet of the record has been handed to the decoder whole
DecodedWhole == Encoded /\ nwrites = 1

\* the flag field of a packet
FlagField(pkt) == pkt[2] * 256 + pkt[3]

\* the file field is populated when both of its properties are
FilePopulated(c) == c.fileName # Undefined /\ c.fileContent # Undefined

MetaFlag(c, flag) ==
  /\ c._packet # Undefined
  /\ c._packet[1].flags # Undefined
  /\ c._packet[1].flags[1][flag]

\* the status table of the wire format
StatusCode(status) ==
  CASE status = Some("exists") -> 1     [] status = Some("inprogress") -> 2
    [] status = Some("success") -> 3    [] status = Some("uxsuccess") -> 4
    [] status = Some("skip") -> 5       [] status = Some("fail") -> 6
    [] status = Some("xfail") -> 7      [] OTHER -> 0

StatusName(code) ==
  CASE code = 1 -> "exists"    [] code = 2 -> "inprogress"
    [] code = 3 -> "success"   [] code = 4 -> "uxsuccess"
    [] code = 5 -> "skip"      [] code = 6 -> "fail"
    [] code = 7 -> "xfail"     [] OTHER -> "null"

Bit(on, mask) == IF on THEN mask ELSE 0

\* C3: a record with any subset of the optional fields populated, once
\* encoded and its packet decoded as one chunk, comes back as exactly one
\* record that is equal in every populated field (tags in order, status from
\* the table), has every unpopulated field absent (the null status for no
\* status), and has _packet.flags true exactly for what was populated.
RecordRoundTrip ==
  DecodedWhole =>
    /\ Len(pushed) = 1 /\ ~thrown /\ ~spinning /\ errors = <<>>
    /\ offset = Len(bl)
    /\ LET c == chunk[1]
           r == pushed[1]
           f == r._packet[1].flags[1]
       IN /\ r.timestamp = c.timestamp
          /\ r.testId = c.testId
          /\ r.tags = c.tags
          /\ r.mimeType = c.mimeType
          /\ r.routeCode = c.routeCode
          /\ r.fileName = (IF FilePopulated(c) THEN c.fileName ELSE Undefined)
          /\ r.fileContent =
               (IF FilePopulated(c) THEN c.fileContent ELSE Undefined)
          /\ r.status = (IF StatusCode(c.status) # 0 THEN c.status
                         ELSE Some("null"))
          /\ f.timestamp = (c.timestamp # Undefined)
          /\ f.testId = (c.testId # Undefined)
          /\ f.tags = (c.tags # Undefined)
          /\ f.mimeType = (c.mimeType # Undefined)
          /\ f.fileContent = FilePopulated(c)
          /\ f.routeCode = (c.routeCode # Undefined)
          /\ f.runnable = MetaFlag(c, "runnable")
          /\ f.eof = MetaFlag(c, "eof")

RecordRoundTripWitness ==
  /\ DecodedWhole /\ Len(pushed) = 1
  /\ pushed[1].testId = Some(<<84, 49>>)
  /\ pushed[1].status = Some("success")
  /\ pushed[1].timestamp = Some(Date1)
  /\ pushed[1].tags = Some(<<<<97>>, <<98>>>>)
  /\ pushed[1].mimeType = Undefined /\ pushed[1].routeCode = Undefined
  /\ pushed[1].fileName = Undefined

\* C9: the encoder sets the low 3 bits of the flag field to the code 1..7
\* of the record's status and to 0 for an absent, null or unrecognized
\* status; the decoder maps the low 3 bits c to the status with code c (0
\* to the null status); so a status of the table survives the round trip.
StatusMapping ==
  /\ Encoded => FlagField(out[1]) % 8 = StatusCode(chunk[1].status)
  /\ (DecodedWhole /\ pushed # <<>>) =>
       /\ pushed[1].status = Some(StatusName(FlagField(out[1]) % 8))
       /\ StatusCode(chunk[1].status) # 0 =>
            pushed[1].status = chunk[1].status

StatusMappingWitness ==
  /\ DecodedWhole /\ pushed # <<>>
  /\ chunk[1].status = Some("fail")
  /\ FlagField(out[1]) % 8 = 6
  /\ pushed[1].status = Some("fail")

\* the metadata of c cut down to its runnable and eof flags
OnlyPayloadless(c) ==
  [c EXCEPT !._packet =
     Meta(0, Some([NoFlags EXCEPT !.runnable = MetaFlag(c, "runnable"),
                                  !.eof = MetaFlag(c, "eof")]))]

\* C10: the flag field of an emitted packet is the version bits 0x2000, the
\* status code, the runnable and eof bits exactly when the metadata has them
\* true, and the bit of each populated optional field (the file bit for
\* fileName with fileContent); the rest of the metadata has no effect: the
\* record with all other metadata replaced encodes to the same bytes.
FlagDerivation ==
  Encoded =>
    LET c == chunk[1] IN
    /\ FlagField(out[1]) =
         8192 + StatusCode(c.status)
         + Bit(MetaFlag(c, "runnable"), 256) + Bit(MetaFlag(c, "eof"), 16)
         + Bit(c.timestamp # Undefined, 512) + Bit(c.testId # Undefined, 2048)
         + Bit(c.tags # Undefined, 128) + Bit(c.mimeType # Undefined, 32)
         + Bit(FilePopulated(c), 64) + Bit(c.routeCode # Undefined, 1024)
    /\ out[1] = Encode(OnlyPayloadless(c)).bytes
    /\ (~MetaFlag(c, "runnable") /\ ~MetaFlag(c, "eof")) =>
         out[1] = Encode([c EXCEPT !._packet = Undefined]).bytes

FlagDerivationWitness ==
  /\ Encoded
  /\ MetaFlag(chunk[1], "testId") /\ MetaFlag(chunk[1], "runnable")
  /\ chunk[1]._packet[1].length = 99
  /\ chunk[1].testId = Undefined
  /\ FlagField(out[1]) = 8192 + 256 + 16 + 3

(***************************************************************************)
(* Properties of the chunked decoder (Spec).                               *)
(***************************************************************************)
\* the decoder was fed the bytes of the packet only, no stray byte first
CleanInput == Encoded /\ bl = SubSeq(out[1], 1, Len(bl))

\* the decoder was fed one stray byte and then bytes of the packet
StrayInput == Encoded /\ bl # <<>> /\ Tail(bl) = SubSeq(out[1], 1, Len(bl) - 1)

\* the records a fresh decoder pushes for the bytes bs handed over whole
WholeDecode(bs) == Drain(bs, 0, <<>>, <<>>, TRUE).pushed

\* C8: the encoder sets the fileContent bit 0x0040 and emits the file
\* fields (name string, content length varint, content bytes) if and only
\* if both fileName and fileContent are populated; with one of the two the
\* bit is clear and the packet is that of the record without them; every
\* record the decoder pushes has fileContent exactly when it has fileName.
FilePairing ==
  /\ Encoded =>
       LET c == chunk[1]
           pkt == out[1]
           route == IF c.routeCode # Undefined
                    THEN Len(writeUtf8(c.routeCode[1]).bytes) ELSE 0
       IN /\ ((FlagField(pkt) \div 64) % 2 = 1) <=> FilePopulated(c)
          /\ ~FilePopulated(c) =>
               pkt = Encode([c EXCEPT !.fileName = Undefined,
                                      !.fileContent = Undefined]).bytes
          /\ FilePopulated(c) =>
               LET file == writeUtf8(c.fileName[1]).bytes
                           \o writeVarInt(Len(c.fileContent[1])).bytes
                           \o c.fileContent[1]
                   last == Len(pkt) - 4 - route
               IN SubSeq(pkt, last - Len(file) + 1, last) = file
  /\ \A i \in 1..Len(pushed) :
       (pushed[i].fileContent # Undefined) <=> (pushed[i].fileName # Undefined)

FilePairingWitness ==
  /\ Encoded /\ pipe = <<>> /\ pushed # <<>>
  /\ chunk[1].fileName # Undefined /\ chunk[1].fileContent = Undefined
  /\ (FlagField(out[1]) \div 64) % 2 = 0
  /\ pushed[1].fileName = Undefined /\ pushed[1].fileContent = Undefined

\* C1: for every packet of the encoder and every position at which its
\* bytes are split into two chunks, a fresh decoder fed the two chunks
\* pushes exactly one record, identical in every field to the record pushed
\* when the packet is fed as one chunk.
ChunkedDecodeEquivalence ==
  (CleanInput /\ pipe = <<>> /\ nwrites = 2) =>
    /\ Len(pushed) = 1
    /\ pushed = WholeDecode(out[1])

\* C2: while the buffer holds fewer bytes than the packet at the cursor
\* needs, handling a chunk pushes no record for that packet and leaves the
\* cursor where it was.
InsufficientDataDeferred ==
  (CleanInput /\ Len(bl) < Len(out[1])) => (pushed = <<>> /\ offset = 0)

\* C7: when the input is one stray byte that is not the signature followed
\* by one well-formed packet, the decoder (here with a consumer that
\* listens for the framing error) does not abort and still pushes the
\* record of that packet, with the field values it has when the packet is
\* decoded without the stray byte.
LenientFraming ==
  (StrayInput /\ listening /\ pipe = <<>> /\ nwrites = 1) =>
    /\ ~thrown /\ ~spinning
    /\ pushed # <<>>
    /\ pushed[Len(pushed)] = WholeDecode(out[1])[1]


(***************************************************************************)
(* Properties of the chain decoder - encoder - decoder (SpecChain).        *)
(***************************************************************************)
\* the packet the chain started with
FirstPacket == SubSeq(bl, 1, pushed[1]._packet[1].length)

\* the checksum of pkt is the CRC-32 of the bytes before it
CrcCorrect(pkt) ==
  SubSeq(pkt, Len(pkt) - 3, Len(pkt)) = crc32(SubSeq(pkt, 1, Len(pkt) - 4))

\* the nanoseconds of the timestamp field of pkt, 0 when it has none
NanosOf(pkt) ==
  IF (FlagField(pkt) \div 512) % 2 = 0 THEN 0
  ELSE readVarInt(pkt, 3 + readVarInt(pkt, 3).length + 4).value

\* the seconds of the timestamp field of pkt as <<high, low>>
SecondsOf(pkt) ==
  LET at == 3 + readVarInt(pkt, 3).length
  IN <<pkt[at + 1] * 256 + pkt[at + 2], pkt[at + 3] * 256 + pkt[at + 4]>>

HasTimestamp(pkt) == (FlagField(pkt) \div 512) % 2 = 1

\* the decoder has pushed the record of the first packet and the encoder
\* has been handed it
Chained == pc = "chain" /\ Len(pushed) >= 1 /\ chunk # Undefined

\* C11: for every well-formed packet (checksum correct) whose timestamp, if
\* present, is a whole number of milliseconds, decoding the packet and
\* encoding the decoded record succeeds and emits exactly the bytes of the
\* original packet.
ChainingBitIdentical ==
  (Chained /\ CrcCorrect(FirstPacket) /\ NanosOf(FirstPacket) % 1000000 = 0) =>
    /\ ~encErr
    /\ out = <<FirstPacket>>


(***************************************************************************)
(* Further properties of the chunked decoder (Spec).                       *)
(***************************************************************************)
\* C12: whatever the buffer holds and whatever chunk arrives, malformed
\* input and a length field of 0 included, the parse loop of the decoder
\* ends after finitely many passes and records (here with a consumer that
\* listens for the framing error, so that no pass throws).
ParseLoopTerminates == listening => ~spinning


(***************************************************************************)
(* Properties of several packets delivered in chunks (SpecMany).           *)
(***************************************************************************)
RECURSIVE SumLen(_, _)
\* the number of bytes of the first n packets of packets
SumLen(packets, n) ==
  IF n = 0 THEN 0 ELSE SumLen(packets, n - 1) + Len(packets[n])

\* the record was parsed from the header of the packet pkt
ParsedFrom(r, pkt) ==
  /\ r.status = Some(statusFlags[FlagField(pkt) % 8])
  /\ r._packet[1].flags[1] = PacketFlags(FlagField(pkt))
  /\ r._packet[1].length = readVarInt(pkt, 3).value

\* C13: when the input is the packets of the encoder one after the other,
\* delivered in chunks of any sizes, the decoder at every moment has pushed
\* no more records than packets were written, the k-th record was parsed
\* from the first byte of the k-th packet, the cursor is the sum of the
\* lengths of the packets whose records were pushed, and once every byte is
\* delivered there is exactly one record per packet.
InOrderExactlyOnce ==
  /\ Len(pushed) <= Len(out)
  /\ \A k \in 1..Len(pushed) : ParsedFrom(pushed[k], out[k])
  /\ offset = SumLen(out, Len(pushed))
  /\ pipe = <<>> => Len(pushed) = Len(out)
  /\ errors = <<>> /\ ~thrown /\ ~spinning

\* two packets, the second pushed while the first was cut by a chunk
InOrderExactlyOnceWitness ==
  /\ Len(out) = 2 /\ Len(pushed) = 2 /\ pipe = <<>> /\ nwrites >= 3
  /\ offset = Len(out[1]) + Len(out[2])
  /\ pushed[2].testId = S(T1)


(***************************************************************************)
(* The length field and the cursor (SpecMany).                             *)
(***************************************************************************)
RECURSIVE SumDeclared(_, _, _)
\* the sum over the first n records of (declared length + extra)
SumDeclared(recs, n, extra) ==
  IF n = 0 THEN 0
  ELSE SumDeclared(recs, n - 1, extra) + recs[n]._packet[1].length + extra

\* the value of the length field of the packet pkt
LengthField(pkt) == readVarInt(pkt, 3).value

\* C14 as stated: the length field excludes the 3 signature and flag bytes,
\* and after a packet with length field L is parsed at cursor p the cursor
\* is p + L + 3.
CursorAdvanceLengthPlusHeader ==
  pushed # <<>> =>
    /\ \A k \in 1..Len(out) : LengthField(out[k]) = Len(out[k]) - 3
    /\ offset = SumDeclared(pushed, Len(pushed), 3)

\* C14: the length field counts every byte of the packet, from the
\* signature through the end of the checksum, and after a packet with
\* length field L is parsed at cursor p the cursor is p + L: the cursor is
\* always the sum of the length fields of the records pushed so far.
CursorAdvanceLength ==
  /\ \A k \in 1..Len(out) : LengthField(out[k]) = Len(out[k])
  /\ \A k \in 1..Len(pushed) : pushed[k]._packet[1].length = LengthField(out[k])
  /\ offset = SumDeclared(pushed, Len(pushed), 0)

\* two packets parsed, the cursor standing at the end of the second
CursorAdvanceLengthWitness ==
  /\ Len(pushed) = 2 /\ Len(out) = 2
  /\ pushed[1]._packet[1].length = Len(out[1])
  /\ offset = pushed[1]._packet[1].length + pushed[2]._packet[1].length
  /\ offset = Len(bl)


(***************************************************************************)
(* The length field written by the encoder (SpecLength).                   *)
(***************************************************************************)
\* the largest value a varint of k bytes holds
SizeClassMax(k) ==
  IF k = 1 THEN 63 ELSE IF k = 2 THEN 16383 ELSE IF k = 3 THEN 4194303
  ELSE MaxVarInt


\* C15: for a packet of baseLength = num bytes without its length field,
\* the encoder writes the varint of num + k, where k is the smallest of
\* 1, 2, 3 whose size class holds num + k, and the varint is k bytes long
\* and reads back as num + k, the size of the whole packet; above 4194300
\* the encode throws and no length field of 4 bytes is written.
LengthFieldSmallestClass ==
  /\ (pc \in {"written", "read"} /\ num <= 4194300) =>
       /\ ~buf.err
       /\ Len(buf.bytes) \in 1..3
       /\ num + Len(buf.bytes) <= SizeClassMax(Len(buf.bytes))
       /\ \A j \in 1..(Len(buf.bytes) - 1) : num + j > SizeClassMax(j)
  /\ (pc = "written" /\ num > 4194300) => buf.err /\ buf.bytes = <<>>
  /\ pc = "read" =>
       /\ ~res.err
       /\ res.length = Len(buf.bytes)
       /\ res.value = num + Len(buf.bytes)

\* baseLength 63 does not fit one byte with its length field: 2 bytes, 65
LengthFieldSmallestClassWitness ==
  /\ pc = "read" /\ num = 63
  /\ buf.bytes = <<64, 65>>
  /\ res.value = 65



(***************************************************************************)
(* Framing errors (Spec).                                                  *)
(***************************************************************************)
\* the first chunk has been handled, the byte at cursor 0 is not the
\* signature, and the flag and length bytes after it were in the chunk
BadSignatureRead ==
  /\ pc = "stream" /\ nwrites = 1
  /\ CanRead(bl, 0, 3) /\ bl[1] # signature
  /\ ~readVarInt(bl, 3).err

\* what the decoder does with the same chunk when its first byte is the
\* signature
Signed == Drain([bl EXCEPT ![1] = signature], 0, <<>>, <<>>, TRUE)

\* the decoder reported the bad signature at cursor 0 and went on as for
\* the same bytes with a correct signature
ReportedAndParsed ==
  /\ ~thrown
  /\ errors = <<0>> \o Signed.errors
  /\ pushed = Signed.pushed
  /\ offset = Signed.offset
  /\ spinning = Signed.spinning

\* C16: when the byte at the cursor is not the signature and the flag and
\* length bytes after it are available, the decoder reports a framing
\* error to the consumer and parses flags, length and fields from that
\* same cursor, pushing the record and moving the cursor exactly as for a
\* packet with a correct signature; it does not drop the byte and does not
\* stop handling chunks.
FramingErrorNotFatal == BadSignatureRead => ReportedAndParsed

\* the same for a consumer that listens for the 'error' event
FramingErrorNotFatalListening ==
  (BadSignatureRead /\ listening) => ReportedAndParsed



(***************************************************************************)
(* Failures of the encoder (SpecEncoder).                                  *)
(***************************************************************************)
\* the outcome of the write of the record c, the last record written:
\* either its packet is the last one emitted, or the call failed with the
\* error of the integer codec
WriteOutcome(c) ==
  The({IF r.err THEN encErr
       ELSE ~encErr /\ out # <<>> /\ out[Len(out)] = r.bytes :
       r \in {Encode(c)}})

\* C17: every write to the encoder either emits exactly one complete
\* packet or fails with the domain error of the integer codec and emits
\* nothing; a failed write leaves nothing behind, so a record written after
\* it is emitted as the same bytes as if the failed write had not been made.
EncoderFailureIsolated ==
  /\ chunk # Undefined => WriteOutcome(chunk[1])
  /\ \A k \in 1..Len(out) : \E c \in EncoderRecords : Encode(c) = Bytes(out[k])



(***************************************************************************)
(* Timestamps through the chain (SpecChain).                               *)
(***************************************************************************)
\* the instant of whole seconds s = <<high, low>> and ms milliseconds
Instant(s, ms) == [secHi |-> s[1], secLo |-> s[2], ms |-> ms]

\* the first packet carries a timestamp whose nanoseconds are below one
\* second, and the decoder has pushed its record
TimestampDecoded ==
  /\ pc = "chain" /\ Len(pushed) >= 1
  /\ HasTimestamp(FirstPacket)
  /\ NanosOf(FirstPacket) < 1000000000

\* C18: a timestamp of s seconds and n nanoseconds (n below one second)
\* decodes to the instant s * 1000 + floor(n / 1000000) milliseconds; the
\* encoder writes that instant as s seconds and floor(n / 1000000) * 1000000
\* nanoseconds, and decoding what it wrote gives the same instant again.
TimestampRoundsDown ==
  TimestampDecoded =>
    /\ pushed[1].timestamp =
         Some(Instant(SecondsOf(FirstPacket),
                      NanosOf(FirstPacket) \div 1000000))
    /\ chunk # Undefined =>
         /\ ~encErr /\ Len(out) = 1
         /\ HasTimestamp(out[1])
         /\ SecondsOf(out[1]) = SecondsOf(FirstPacket)
         /\ NanosOf(out[1]) = (NanosOf(FirstPacket) \div 1000000) * 1000000
    /\ Len(pushed) >= 2 => pushed[2].timestamp = pushed[1].timestamp

\* the same for timestamps more than 244 ns below the next millisecond,
\* where the sum of line 160 is not rounded up to it
TimestampRoundsDownBelowHalfUlp ==
  (TimestampDecoded
     /\ (NanosOf(FirstPacket) % 1000000 = 0
           \/ 1000000 - (NanosOf(FirstPacket) % 1000000) > 244)) =>
    TimestampRoundsDown



(***************************************************************************)
(* The checksum on the way in (SpecChain).                                 *)
(***************************************************************************)
\* pkt with its last four bytes replaced by the CRC-32 of the bytes before
FixCrc(pkt) ==
  The({body \o crc32(body) : body \in {SubSeq(pkt, 1, Len(pkt) - 4)}})

\* the packet has been handed to the decoder, and nothing else
PacketDecoded == pc = "chain" /\ nwrites = 1 /\ Len(bl) >= 4

\* C19: a packet decodes to the same records and moves the cursor by the
\* same amount as the packet that differs from it in the four checksum
\* bytes only and carries the correct checksum, and no error is reported
\* for a wrong checksum.
ChecksumNotVerified ==
  PacketDecoded =>
    \E d \in {Drain(FixCrc(bl), 0, <<>>, <<>>, TRUE)} :
      /\ pushed = d.pushed
      /\ offset = d.offset
      /\ errors = d.errors /\ errors = <<>>
      /\ ~thrown /\ ~d.thrown

\* a packet with a wrong checksum was decoded to a record
ChecksumNotVerifiedWitness ==
  /\ PacketDecoded
  /\ ~CrcCorrect(bl)
  /\ Len(pushed) = 1 /\ offset = Len(bl)
  /\ pushed[1].testId = S(T1)



(***************************************************************************)
(* Repeated framing errors (Spec).                                         *)
(***************************************************************************)
\* C20: for a cursor position whose byte is not the signature the decoder
\* reports the framing error at most once, however many chunks it takes
\* for the rest of the packet to arrive and however often the pass at that
\* cursor is made again: no offset is reported twice.
FramingErrorReportedOnce ==
  \A i, j \in 1..Len(errors) : i # j => errors[i] # errors[j]

====
